---------------------------- MODULE Spec2Model ----------------------------
(***************************************************************************)
(* PaymentAgent (agent/PaymentAgent.ts): the payment scheduling and        *)
(* retry-orchestration engine.  Four cron callbacks (scan, retry-queue     *)
(* drain, balance check, pattern analysis) run on one JavaScript thread;   *)
(* a callback is suspended at every `await` and the other callbacks may    *)
(* run in between.  One action of this module is the code that runs from   *)
(* the resumption of one await up to the next await (or to the end of the  *)
(* callback); the outcome of the awaited call is chosen by the action.     *)
(***************************************************************************)
EXTENDS Integers, Sequences, FiniteSets, TLC

(* ------------------------------ constants ------------------------------ *)

\* private MAX_RETRIES = 3
MAX_RETRIES == 3

\* the literal 3 of `processablePayments.length > 3`
BatchThreshold == 3

\* config.batchProcessingThreshold: BATCH_PROCESSING_THRESHOLD || '3'
DefaultBatchProcessingThreshold == 3

\* values BATCH_PROCESSING_THRESHOLD is set to
ConfiguredThresholds ==
    {DefaultBatchProcessingThreshold - 1, DefaultBatchProcessingThreshold,
     DefaultBatchProcessingThreshold + 1}

\* number of active payments the ledger lists in Spec and SpecDrain, and
\* number of overlapping firings of the scan and of the drain schedule
NumPayments == 2
NumScanTicks == 2
NumDrainTicks == 1

\* the smallest number of payments that is dispatched as a batch
BatchPayments == BatchThreshold + 1

\* the submission counter `tries` saturates here
TriesCap == MAX_RETRIES + 2

Scans == 1..NumScanTicks
Drains == 1..NumDrainTicks

VARIABLES
    isProcessing,   \* PaymentAgent.isProcessing, the ProcessingGuard
    retryQueue,     \* PaymentAgent.retryQueue: entries [id, cnt] in insertion order
    scan,           \* the invocations of checkAndProcessPayments
    drain,          \* the invocations of processRetryQueue
    balance,        \* the invocation of checkBalance
    analyzer,       \* the invocation of analyzePaymentPatterns
    webhookUrl,     \* config.webhookUrl is non-empty
    batchProcessingThreshold,   \* config.batchProcessingThreshold
    lowBalanceThreshold,        \* config.lowBalanceThreshold, a decimal string
    ledger,         \* the active payment identifiers the contract lists
    tracked,        \* the identifiers whose submissions are counted
    tries,          \* per tracked identifier: submissions issued since its last success
    lostUpdate,     \* a retry count was stored that was computed from a stale read
    raised,         \* the tick kinds whose callback rejected
    seen,           \* what the call awaited by the last step returned
    drained         \* per drain tick: the tracked identifiers it has submitted

vars == <<isProcessing, retryQueue, scan, drain, balance, analyzer, webhookUrl,
          batchProcessingThreshold, lowBalanceThreshold, ledger, tracked, tries,
          lostUpdate, raised, seen, drained>>

\* what the balance check and the pattern analysis never touch
agentVars == <<isProcessing, retryQueue, scan, drain, webhookUrl,
               batchProcessingThreshold, lowBalanceThreshold, ledger, tracked, tries,
               lostUpdate, raised, drained>>

(* ------------------------- Map<string, number> ------------------------- *)

Range(f) == {f[i] : i \in DOMAIN f}

Min(a, b) == IF a < b THEN a ELSE b

\* Map.prototype.has
Has(q, k) == \E i \in 1..Len(q) : q[i].id = k

IndexOf(q, k) == CHOOSE i \in 1..Len(q) : q[i].id = k

\* `this.retryQueue.get(id) || 0`
Get(q, k) == IF Has(q, k) THEN q[IndexOf(q, k)].cnt ELSE 0

\* Map.prototype.set: an existing key keeps its place, a new key goes last
MapSet(q, k, v) ==
    IF Has(q, k) THEN [q EXCEPT ![IndexOf(q, k)].cnt = v]
    ELSE Append(q, [id |-> k, cnt |-> v])

\* Map.prototype.delete: removing an absent key changes nothing
MapDelete(q, k) ==
    IF Has(q, k)
    THEN LET i == IndexOf(q, k) IN SubSeq(q, 1, i - 1) \o SubSeq(q, i + 1, Len(q))
    ELSE q

\* the loop of lines 253-255 left out
MapDeleteAll_None(q, ks) == q

RECURSIVE MapDeleteAll(_, _)
MapDeleteAll(q, ks) ==
    IF ks = <<>> THEN q ELSE MapDeleteAll(MapDelete(q, Head(ks)), Tail(ks))

\* A live Map iterator has passed `pos` entries of the map.  An entry that is
\* deleted behind the iterator no longer counts; entries that are set keep
\* their place and new entries are appended, so they lie ahead.
IterPos(q, newq, pos) == Cardinality({i \in 1..pos : Has(newq, q[i].id)})

IterSync(dr, q, newq) ==
    [d \in DOMAIN dr |-> [dr[d] EXCEPT !.pos = IterPos(q, newq, @)]]

(* ------------------------------- gateway ------------------------------- *)

\* what an awaited gateway call can do: resolve or reject
Outcomes == {"ok", "err"}

\* getActivePaymentIds resolves to the (possibly empty) list of active ids
ListResults == {<<>>, ledger}

\* payrollContract.recurringPayments(id): the fields the agent reads
PaymentRecords == [isActive : BOOLEAN, lastPayment : {0, 1}, interval : {3600}]

\* the same call in checkBalance and analyzePaymentPatterns: amounts are in
\* hundredths of an ether
DuePayments == [lastPayment : {0}, interval : {3600, 90000}, amount : {1, 2}]

\* Date.now(), in milliseconds
ClockMs == {3599999, 3600000, 3600999, 3601000}

\* Math.floor(Date.now() / 1000)
NowSeconds(ms) == ms \div 1000

\* `<=` written for `<` at line 98
Classify_DueAfter(pay, now) ==
    LET nextPaymentTime == pay.lastPayment + pay.interval
    IN  IF ~pay.isActive THEN "inactive"
        ELSE IF now <= nextPaymentTime THEN "notdue"
        ELSE "blocked"

\* the classification of a payment that cannot be processed (lines 93-114)
Classify(pay, now) ==
    LET nextPaymentTime == pay.lastPayment + pay.interval
    IN  IF ~pay.isActive THEN "inactive"
        ELSE IF now < nextPaymentTime THEN "notdue"
        ELSE "blocked"

\* `config.webhookUrl && now >= nextPaymentTime` in the blocked branch
WarnsBlocked(pay, now, hook) == hook /\ now >= pay.lastPayment + pay.interval

(* ----------------------------- observation ----------------------------- *)

\* no payment record was read
NoPayment == [isActive |-> FALSE, lastPayment |-> 0, interval |-> 0]

\* nothing is observed
Unseen == [on |-> FALSE, o |-> "none", pay |-> NoPayment, num |-> 0]

\* where observation is on, `seen` keeps what the call awaited by this step
\* returned: its outcome o, the payment record and the number it resolved to
Saw(o, pay, num) ==
    seen' = IF seen.on THEN [on |-> TRUE, o |-> o, pay |-> pay, num |-> num]
            ELSE seen

SawOutcome(o) == Saw(o, NoPayment, 0)

SawNothing == SawOutcome("none")

\* sendWebhook resolves whether or not the notification was delivered
SawDelivery(delivered) == SawOutcome(IF delivered THEN "delivered" ELSE "undelivered")

(* -------------------------------- scan --------------------------------- *)

IdleScan == [pc |-> "idle", ids |-> <<>>, idx |-> 0, proc |-> <<>>, pidx |-> 0]

\* the check of line 64 left out
GuardHeld_Unchecked == FALSE

\* `if (this.isProcessing)`
GuardHeld == isProcessing

\* the finally block of lines 138-140 left out
ReleaseGuard_Never(r, g) == g

\* the `return` of line 66 placed inside the try: the finally clears the guard
SkipGuard_Released(g) == FALSE

\* lines 64-67 return before the try of line 69: the guard stays as it is
SkipGuard(g) == g

\* `finally { this.isProcessing = false; }`: r is the invocation after the step
ReleaseGuard(r, g) == IF r.pc = "idle" THEN FALSE ELSE g

\* `>=` written for `>` at line 126
UseBatch_AtLeast(n) == n >= BatchThreshold

\* `processablePayments.length > 3`
UseBatch(n) == n > BatchThreshold

\* the identifier processSinglePayment is working on
CurId(r) == r.proc[r.pidx]

\* the loops that call processSinglePayment: the next identifier, or the end
NextSingle(r) ==
    IF r.pidx < Len(r.proc) THEN [r EXCEPT !.pidx = @ + 1, !.pc = "read"]
    ELSE IdleScan

\* lines 121-135: nothing to do, one batch, or one call per identifier
Dispatch(r) ==
    IF Len(r.proc) = 0 THEN IdleScan
    ELSE IF UseBatch(Len(r.proc)) THEN [r EXCEPT !.pc = "batch"]
    ELSE [r EXCEPT !.pc = "read", !.pidx = 1]

\* the loop over activePaymentIds: the next eligibility check, or dispatch
NextCheck(r) ==
    IF r.idx < Len(r.ids) THEN [r EXCEPT !.idx = @ + 1, !.pc = "can"]
    ELSE Dispatch(r)

\* the try of lines 86-118 left out: the rejection ends the tick at line 136
CheckFailed_Aborts(r) == IdleScan

\* the catch of lines 116-118: log, and go on with the loop
CheckFailed(r) == NextCheck(r)

\* `<=` written for `<` at line 198
SingleFailQueue_AtMost(q, id) ==
    LET currentRetries == Get(q, id)
    IN  IF currentRetries <= MAX_RETRIES THEN MapSet(q, id, currentRetries + 1)
        ELSE q

\* the catch block of processSinglePayment, lines 197-200: the retry map
SingleFailQueue(q, id) ==
    LET currentRetries == Get(q, id)
    IN  IF currentRetries < MAX_RETRIES THEN MapSet(q, id, currentRetries + 1)
        ELSE q

\* the catch block of processSinglePayment, lines 201-218: what runs next
SingleFailNext(r, q, hook) ==
    IF Get(q, CurId(r)) < MAX_RETRIES THEN NextSingle(r)
    ELSE IF hook THEN [r EXCEPT !.pc = "errread"]
    ELSE NextSingle(r)

\* the identifiers of the submission the step from r to n issues
Issued(r, n) ==
    IF n.pc = "submit" /\ r.pc # "submit" THEN {CurId(n)}
    ELSE IF n.pc = "batch" /\ r.pc # "batch" THEN Range(n.proc)
    ELSE {}

\* the identifiers whose submission invocation r is awaiting
InFlight(r) ==
    IF r.pc \in {"submit", "wait"} THEN {CurId(r)}
    ELSE IF r.pc \in {"batch", "bwait"} THEN Range(r.proc)
    ELSE {}

\* tries[p] is 0 while no submission of p has failed since its last success;
\* otherwise it is 1 + the number of submissions of p issued since the first
\* such failure.  `settled` are the identifiers of the submission whose
\* outcome ("ok", "err") has just arrived.
Count(tr, issued, settled, outcome) ==
    [p \in DOMAIN tr |->
        IF p \notin tracked THEN tr[p]
        ELSE IF p \in settled /\ outcome = "ok" THEN 0
        ELSE IF p \in settled /\ outcome = "err" /\ tr[p] = 0 THEN 1
        ELSE IF p \in issued /\ tr[p] > 0 THEN Min(tr[p] + 1, TriesCap)
        ELSE tr[p]]

\* one step of invocation s: it becomes n and leaves the retry map as newq
ScanStep(s, n, newq, outcome) ==
    /\ scan' = [scan EXCEPT ![s] = n]
    /\ retryQueue' = newq
    /\ drain' = IterSync(drain, retryQueue, newq)
    /\ isProcessing' = ReleaseGuard(n, isProcessing)
    /\ tries' = Count(tries, Issued(scan[s], n), InFlight(scan[s]), outcome)
    /\ UNCHANGED <<balance, analyzer, webhookUrl, batchProcessingThreshold,
                   lowBalanceThreshold, ledger, tracked, lostUpdate, raised, drained>>

\* lines 63-74: the guard is free; take it and list the active payments
ScanStart(s) ==
    /\ scan[s].pc \in {"idle", "skipped"}
    /\ ~GuardHeld
    /\ isProcessing' = TRUE
    /\ scan' = [scan EXCEPT ![s] = [IdleScan EXCEPT !.pc = "list"]]
    /\ UNCHANGED <<retryQueue, drain, balance, analyzer, webhookUrl,
                   batchProcessingThreshold, lowBalanceThreshold, ledger, tracked, tries,
                   lostUpdate, raised, drained>>
    /\ SawNothing

\* lines 64-67: the guard is held; return
ScanSkip(s) ==
    /\ scan[s].pc \in {"idle", "skipped"}
    /\ GuardHeld
    /\ scan' = [scan EXCEPT ![s] = [IdleScan EXCEPT !.pc = "skipped"]]
    /\ isProcessing' = SkipGuard(isProcessing)
    /\ UNCHANGED <<retryQueue, drain, balance, analyzer, webhookUrl,
                   batchProcessingThreshold, lowBalanceThreshold, ledger, tracked, tries,
                   lostUpdate, raised, drained>>
    /\ SawNothing

\* line 74 resolves or rejects; lines 75-87
ScanList(s) ==
    /\ scan[s].pc = "list"
    /\ \E o \in Outcomes, l \in ListResults :
        /\ SawOutcome(o)
        /\ LET r == scan[s]
               n == IF o = "err" \/ Len(l) = 0 THEN IdleScan
                    ELSE [r EXCEPT !.pc = "can", !.ids = l, !.idx = 1]
           IN  ScanStep(s, n, retryQueue, "none")

\* line 87 resolves to true or false, or rejects (caught at line 116)
ScanCan(s) ==
    /\ scan[s].pc = "can"
    /\ \E o \in {"true", "false", "err"} :
        /\ SawOutcome(o)
        /\ LET r == scan[s]
               n == CASE o = "true" -> NextCheck([r EXCEPT !.proc = Append(@, r.ids[r.idx])])
                      [] o = "false" -> [r EXCEPT !.pc = "why"]
                      [] o = "err" -> CheckFailed(r)
           IN  ScanStep(s, n, retryQueue, "none")

\* line 92 resolves or rejects; lines 93-114
ScanWhy(s) ==
    /\ scan[s].pc = "why"
    /\ \E o \in Outcomes, pay \in PaymentRecords, ms \in ClockMs :
        /\ Saw(o, IF o = "ok" THEN pay ELSE NoPayment, IF o = "ok" THEN ms ELSE 0)
        /\ LET r == scan[s]
               now == NowSeconds(ms)
               n == IF o = "err" THEN CheckFailed(r)
                    ELSE IF Classify(pay, now) = "blocked"
                            /\ WarnsBlocked(pay, now, webhookUrl)
                    THEN [r EXCEPT !.pc = "warn"]
                    ELSE NextCheck(r)
           IN  ScanStep(s, n, retryQueue, "none")

\* line 106: sendWebhook swallows a failed delivery
ScanWarn(s) ==
    /\ scan[s].pc = "warn"
    /\ \E delivered \in BOOLEAN :
        /\ SawDelivery(delivered)
        /\ ScanStep(s, NextCheck(scan[s]), retryQueue, "none")

\* line 151 resolves or rejects; lines 154-167
ScanRead(s) ==
    /\ scan[s].pc = "read"
    /\ \E o \in Outcomes :
        /\ SawOutcome(o)
        /\ LET r == scan[s]
           IN  IF o = "ok"
               THEN ScanStep(s, [r EXCEPT !.pc = IF webhookUrl THEN "info" ELSE "submit"],
                             retryQueue, "none")
               ELSE ScanStep(s, SingleFailNext(r, retryQueue, webhookUrl),
                             SingleFailQueue(retryQueue, CurId(r)), "none")

\* line 155 returns; line 167 issues the submission
ScanInfo(s) ==
    /\ scan[s].pc = "info"
    /\ \E delivered \in BOOLEAN :
        /\ SawDelivery(delivered)
        /\ ScanStep(s, [scan[s] EXCEPT !.pc = "submit"], retryQueue, "none")

\* line 167 resolves or rejects
ScanSubmit(s) ==
    /\ scan[s].pc = "submit"
    /\ \E o \in Outcomes :
        /\ SawOutcome(o)
        /\ LET r == scan[s]
           IN  IF o = "ok"
               THEN ScanStep(s, [r EXCEPT !.pc = "wait"], retryQueue, "none")
               ELSE ScanStep(s, SingleFailNext(r, retryQueue, webhookUrl),
                             SingleFailQueue(retryQueue, CurId(r)), "err")

\* line 174 resolves or rejects; lines 178-192
ScanWait(s) ==
    /\ scan[s].pc = "wait"
    /\ \E o \in Outcomes :
        /\ SawOutcome(o)
        /\ LET r == scan[s]
           IN  IF o = "ok"
               THEN IF webhookUrl
                    THEN ScanStep(s, [r EXCEPT !.pc = "okhook"], retryQueue, "ok")
                    ELSE ScanStep(s, NextSingle(r), MapDelete(retryQueue, CurId(r)), "ok")
               ELSE ScanStep(s, SingleFailNext(r, retryQueue, webhookUrl),
                             SingleFailQueue(retryQueue, CurId(r)), "err")

\* line 179 returns; line 192
ScanOkHook(s) ==
    /\ scan[s].pc = "okhook"
    /\ \E delivered \in BOOLEAN :
        /\ SawDelivery(delivered)
        /\ ScanStep(s, NextSingle(scan[s]), MapDelete(retryQueue, CurId(scan[s])), "none")

\* line 206, inside the catch block: a rejection leaves processSinglePayment
\* and its caller's loop, and is caught at line 136
ScanErrRead(s) ==
    /\ scan[s].pc = "errread"
    /\ \E o \in Outcomes :
        /\ SawOutcome(o)
        /\ ScanStep(s, IF o = "ok" THEN [scan[s] EXCEPT !.pc = "errhook"] ELSE IdleScan,
                    retryQueue, "none")

\* line 207 returns
ScanErrHook(s) ==
    /\ scan[s].pc = "errhook"
    /\ \E delivered \in BOOLEAN :
        /\ SawDelivery(delivered)
        /\ ScanStep(s, NextSingle(scan[s]), retryQueue, "none")

\* line 230 resolves or rejects; the catch at line 256 starts the fallback
ScanBatch(s) ==
    /\ scan[s].pc = "batch"
    /\ \E o \in Outcomes :
        /\ SawOutcome(o)
        /\ LET r == scan[s]
           IN  ScanStep(s, IF o = "ok" THEN [r EXCEPT !.pc = "bwait"]
                           ELSE [r EXCEPT !.pc = "read", !.pidx = 1],
                        retryQueue, IF o = "ok" THEN "none" ELSE "err")

\* line 237 resolves or rejects; lines 241-255
ScanBatchWait(s) ==
    /\ scan[s].pc = "bwait"
    /\ \E o \in Outcomes :
        /\ SawOutcome(o)
        /\ LET r == scan[s]
           IN  IF o = "ok"
               THEN IF webhookUrl
                    THEN ScanStep(s, [r EXCEPT !.pc = "bhook"], retryQueue, "ok")
                    ELSE ScanStep(s, IdleScan, MapDeleteAll(retryQueue, r.proc), "ok")
               ELSE ScanStep(s, [r EXCEPT !.pc = "read", !.pidx = 1], retryQueue, "err")

\* line 242 returns; lines 253-255
ScanBatchHook(s) ==
    /\ scan[s].pc = "bhook"
    /\ \E delivered \in BOOLEAN :
        /\ SawDelivery(delivered)
        /\ ScanStep(s, IdleScan, MapDeleteAll(retryQueue, scan[s].proc), "none")

(* -------------------------------- drain -------------------------------- *)

IdleDrain == [pc |-> "idle", pos |-> 0, id |-> 0, cnt |-> 0]

\* the for-of over retryQueue.entries(), line 277: the iterator yields the
\* next entry, key and value as they are now, or is exhausted
DrainNext(r, q) ==
    IF r.pos < Len(q)
    THEN [pc |-> "can", pos |-> r.pos + 1, id |-> q[r.pos + 1].id,
          cnt |-> q[r.pos + 1].cnt]
    ELSE IdleDrain

\* `break` written for `continue` at line 285
DrainSkip_Stops(r, q) == IdleDrain

\* lines 283-286, `continue`: the entry stays as it is, on to the next one
DrainSkip(r, q) == DrainNext(r, q)

\* the iterator of r after the map changed from q to newq
Synced(r, q, newq) == [r EXCEPT !.pos = IterPos(q, newq, @)]

\* `newRetryCount >= this.MAX_RETRIES`, with newRetryCount = retryCount + 1
DrainGivesUp(r) == r.cnt + 1 >= MAX_RETRIES

\* the catch block, lines 320-341: the retry map
DrainFailQueue(q, r) ==
    IF DrainGivesUp(r) THEN MapDelete(q, r.id) ELSE MapSet(q, r.id, r.cnt + 1)

\* the catch block, lines 320-341: what runs next
DrainFailNext(r, q, hook) ==
    LET newq == DrainFailQueue(q, r)
    IN  IF DrainGivesUp(r) /\ hook THEN [Synced(r, q, newq) EXCEPT !.pc = "errread"]
        ELSE DrainNext(Synced(r, q, newq), newq)

\* line 340 stores a count computed from the count read at line 277
StaleWrite(q, r) == ~DrainGivesUp(r) /\ Get(q, r.id) # r.cnt

\* the identifier whose submission invocation r is awaiting
DrainInFlight(r) == IF r.pc \in {"submit", "wait"} THEN {r.id} ELSE {}

\* one step of invocation d: it becomes n and leaves the retry map as newq
DrainStep(d, n, newq, issued, outcome, stale, thrown) ==
    /\ drain' = [IterSync(drain, retryQueue, newq) EXCEPT ![d] = n]
    /\ retryQueue' = newq
    /\ tries' = Count(tries, issued, DrainInFlight(drain[d]), outcome)
    /\ lostUpdate' = (lostUpdate \/ stale)
    /\ raised' = IF thrown THEN raised \cup {"drain"} ELSE raised
    /\ drained' = [drained EXCEPT ![d] = IF n.pc = "idle" THEN {}
                                         ELSE @ \cup (issued \cap tracked)]
    /\ UNCHANGED <<isProcessing, scan, balance, analyzer, webhookUrl,
                   batchProcessingThreshold, lowBalanceThreshold, ledger, tracked>>

\* the catch block as a step of invocation d
DrainCatch(d, outcome) ==
    LET r == drain[d]
    IN  DrainStep(d, DrainFailNext(r, retryQueue, webhookUrl),
                  DrainFailQueue(retryQueue, r), {}, outcome, StaleWrite(retryQueue, r),
                  FALSE)

\* lines 270-282: nothing queued, or the first entry's eligibility check
DrainStart(d) ==
    /\ drain[d].pc = "idle"
    /\ IF Len(retryQueue) = 0 THEN UNCHANGED vars
       ELSE /\ DrainStep(d, DrainNext(IdleDrain, retryQueue), retryQueue, {}, "none",
                         FALSE, FALSE)
            /\ SawNothing

\* line 282 resolves to true or false, or rejects; lines 283-289
DrainCan(d) ==
    /\ drain[d].pc = "can"
    /\ \E o \in {"true", "false", "err"} :
        /\ SawOutcome(o)
        /\ LET r == drain[d]
           IN  CASE o = "true" -> DrainStep(d, [r EXCEPT !.pc = "submit"], retryQueue,
                                            {r.id}, "none", FALSE, FALSE)
                 [] o = "false" -> DrainStep(d, DrainSkip(r, retryQueue), retryQueue,
                                             {}, "none", FALSE, FALSE)
                 [] o = "err" -> DrainCatch(d, "none")

\* line 289 resolves or rejects
DrainSubmit(d) ==
    /\ drain[d].pc = "submit"
    /\ \E o \in Outcomes :
        /\ SawOutcome(o)
        /\ IF o = "ok"
           THEN DrainStep(d, [drain[d] EXCEPT !.pc = "wait"], retryQueue, {}, "none", FALSE, FALSE)
           ELSE DrainCatch(d, "err")

\* line 296 resolves or rejects; lines 300-315
DrainWait(d) ==
    /\ drain[d].pc = "wait"
    /\ \E o \in Outcomes :
        /\ SawOutcome(o)
        /\ LET r == drain[d]
               newq == MapDelete(retryQueue, r.id)
           IN  IF o = "ok"
               THEN IF webhookUrl
                    THEN DrainStep(d, [r EXCEPT !.pc = "okread"], retryQueue, {}, "ok",
                                   FALSE, FALSE)
                    ELSE DrainStep(d, DrainNext(Synced(r, retryQueue, newq), newq), newq,
                                   {}, "ok", FALSE, FALSE)
               ELSE DrainCatch(d, "err")

\* line 301 resolves or rejects: a rejection is caught at line 316
DrainOkRead(d) ==
    /\ drain[d].pc = "okread"
    /\ \E o \in Outcomes :
        /\ SawOutcome(o)
        /\ IF o = "ok"
           THEN DrainStep(d, [drain[d] EXCEPT !.pc = "okhook"], retryQueue, {}, "none",
                          FALSE, FALSE)
           ELSE DrainCatch(d, "none")

\* line 302 returns; line 315
DrainOkHook(d) ==
    /\ drain[d].pc = "okhook"
    /\ \E delivered \in BOOLEAN :
        /\ SawDelivery(delivered)
        /\ LET r == drain[d]
               newq == MapDelete(retryQueue, r.id)
           IN  DrainStep(d, DrainNext(Synced(r, retryQueue, newq), newq), newq, {}, "none",
                         FALSE, FALSE)

\* line 327, inside the catch block: a rejection leaves processRetryQueue
DrainErrRead(d) ==
    /\ drain[d].pc = "errread"
    /\ \E o \in Outcomes :
        /\ SawOutcome(o)
        /\ IF o = "ok"
           THEN DrainStep(d, [drain[d] EXCEPT !.pc = "errhook"], retryQueue, {}, "none",
                          FALSE, FALSE)
           ELSE DrainStep(d, IdleDrain, retryQueue, {}, "none", FALSE, TRUE)

\* line 328 returns; the loop goes on
DrainErrHook(d) ==
    /\ drain[d].pc = "errhook"
    /\ \E delivered \in BOOLEAN :
        /\ SawDelivery(delivered)
        /\ DrainStep(d, DrainNext(drain[d], retryQueue), retryQueue, {}, "none", FALSE, FALSE)

(* ------------------------------- balance ------------------------------- *)

IdleBalance == [pc |-> "idle", contractBalance |-> 0, ids |-> <<>>, idx |-> 0]

\* config.lowBalanceThreshold: LOW_BALANCE_THRESHOLD || '0.1', the digits
\* before and after the point
LowBalanceThreshold == [whole |-> 0, frac |-> <<1>>]

\* values LOW_BALANCE_THRESHOLD is set to: '0.05', '0.1', '0.2'
ConfiguredLowBalanceThresholds ==
    {[whole |-> 0, frac |-> f] : f \in {<<0, 5>>, <<1>>, <<2>>}}

\* the decimal places the model keeps of ethers' 18
Decimals == 2

RECURSIVE Pow10(_)
Pow10(n) == IF n = 0 THEN 1 ELSE 10 * Pow10(n - 1)

RECURSIVE FracUnits(_, _)
FracUnits(digits, place) ==
    IF digits = <<>> THEN 0
    ELSE Head(digits) * Pow10(place - 1) + FracUnits(Tail(digits), place - 1)

\* ethers.parseEther: a decimal string as a fixed-point amount
ParseEther(d) == d.whole * Pow10(Decimals) + FracUnits(d.frac, Decimals)

\* provider.getBalance: 0.05, 0.1 and 0.2 ether
WalletBalances ==
    {ParseEther([whole |-> 0, frac |-> f]) : f \in {<<0, 5>>, <<1>>, <<2>>}}

\* payrollContract.getContractBalance
ContractBalances == {1, 2}

\* `<=` written for `<` at line 358
WalletLow_AtMost(walletBalance) == walletBalance <= ParseEther(lowBalanceThreshold)

\* `walletBalance < ethers.parseEther(config.lowBalanceThreshold)`
WalletLow(walletBalance) == walletBalance < ParseEther(lowBalanceThreshold)

\* lines 386-392: due within the next 24 hours and not covered
Uncovered(pay, now, contractBalance) ==
    LET timeUntilNext == pay.lastPayment + pay.interval - now
    IN  timeUntilNext <= 86400 /\ timeUntilNext > 0 /\ pay.amount > contractBalance

\* the loop over activePaymentIds, line 382
NextBalance(r) ==
    IF r.idx < Len(r.ids) THEN [r EXCEPT !.idx = @ + 1, !.pc = "pay"]
    ELSE IdleBalance

\* lines 349-354
BalanceStart ==
    /\ balance.pc = "idle"
    /\ balance' = [IdleBalance EXCEPT !.pc = "wallet"]
    /\ SawNothing
    /\ UNCHANGED <<agentVars, analyzer>>

\* line 354 resolves or rejects (caught at line 412); lines 358-375
BalanceWallet ==
    /\ balance.pc = "wallet"
    /\ \E o \in Outcomes, w \in WalletBalances :
        /\ Saw(o, NoPayment, IF o = "ok" THEN w ELSE 0)
        /\ balance' = IF o = "err" THEN IdleBalance
                      ELSE IF WalletLow(w) /\ webhookUrl THEN [balance EXCEPT !.pc = "lowhook"]
                      ELSE [balance EXCEPT !.pc = "contract"]
    /\ UNCHANGED <<agentVars, analyzer>>

\* line 362 returns; line 375
BalanceLowHook ==
    /\ balance.pc = "lowhook"
    /\ \E delivered \in BOOLEAN :
        /\ SawDelivery(delivered)
        /\ balance' = [balance EXCEPT !.pc = "contract"]
    /\ UNCHANGED <<agentVars, analyzer>>

\* line 375 resolves or rejects; line 379
BalanceContract ==
    /\ balance.pc = "contract"
    /\ \E o \in Outcomes, c \in ContractBalances :
        /\ SawOutcome(o)
        /\ balance' = IF o = "err" THEN IdleBalance
                      ELSE [balance EXCEPT !.pc = "list", !.contractBalance = c]
    /\ UNCHANGED <<agentVars, analyzer>>

\* line 379 resolves or rejects; line 383 for the first identifier
BalanceList ==
    /\ balance.pc = "list"
    /\ \E o \in Outcomes, l \in ListResults :
        /\ SawOutcome(o)
        /\ balance' = IF o = "err" \/ Len(l) = 0 THEN IdleBalance
                      ELSE [balance EXCEPT !.pc = "pay", !.ids = l, !.idx = 1]
    /\ UNCHANGED <<agentVars, analyzer>>

\* line 383 resolves or rejects; lines 386-409
BalancePay ==
    /\ balance.pc = "pay"
    /\ \E o \in Outcomes, pay \in DuePayments, ms \in ClockMs :
        /\ Saw(o, NoPayment, IF o = "ok" THEN ms ELSE 0)
        /\ balance' = IF o = "err" THEN IdleBalance
                      ELSE IF Uncovered(pay, NowSeconds(ms), balance.contractBalance)
                              /\ webhookUrl
                      THEN [balance EXCEPT !.pc = "duehook"]
                      ELSE NextBalance(balance)
    /\ UNCHANGED <<agentVars, analyzer>>

\* line 397 returns; the loop goes on
BalanceDueHook ==
    /\ balance.pc = "duehook"
    /\ \E delivered \in BOOLEAN :
        /\ SawDelivery(delivered)
        /\ balance' = NextBalance(balance)
    /\ UNCHANGED <<agentVars, analyzer>>

(* ------------------------------- analyzer ------------------------------ *)

\* groups is paymentsByInterval: the identifiers seen so far, by interval
IdleAnalyzer == [pc |-> "idle", ids |-> <<>>, idx |-> 0, groups |-> <<>>]

\* lines 448-454: push the identifier onto its interval's array
Grouped(groups, interval, id) ==
    IF \E i \in 1..Len(groups) : groups[i].interval = interval
    THEN [i \in 1..Len(groups) |->
            IF groups[i].interval = interval
            THEN [groups[i] EXCEPT !.ids = Append(@, id)]
            ELSE groups[i]]
    ELSE Append(groups, [interval |-> interval, ids |-> <<id>>])

\* line 464: the intervals for which batching is recommended
Recommended(groups) ==
    {groups[i].interval : i \in {j \in 1..Len(groups) : Len(groups[j].ids) > 3}}

\* lines 436-441
AnalyzerStart ==
    /\ analyzer.pc = "idle"
    /\ analyzer' = [IdleAnalyzer EXCEPT !.pc = "list"]
    /\ SawNothing
    /\ UNCHANGED <<agentVars, balance>>

\* line 441 resolves or rejects (caught at line 468); line 447
AnalyzerList ==
    /\ analyzer.pc = "list"
    /\ \E o \in Outcomes, l \in ListResults :
        /\ SawOutcome(o)
        /\ analyzer' = IF o = "err" \/ Len(l) = 0 THEN IdleAnalyzer
                       ELSE [analyzer EXCEPT !.pc = "pay", !.ids = l, !.idx = 1]
    /\ UNCHANGED <<agentVars, balance>>

\* line 447 resolves or rejects; lines 448-467 log and return
AnalyzerPay ==
    /\ analyzer.pc = "pay"
    /\ \E o \in Outcomes, pay \in DuePayments :
        /\ SawOutcome(o)
        /\ LET r == analyzer
               g == Grouped(r.groups, pay.interval, r.ids[r.idx])
           IN  analyzer' = IF o = "err" \/ r.idx = Len(r.ids) THEN IdleAnalyzer
                           ELSE [r EXCEPT !.idx = @ + 1, !.groups = g]
    /\ UNCHANGED <<agentVars, balance>>

(* ---------------------------- specifications --------------------------- *)

InitAgent ==
    /\ isProcessing = FALSE
    /\ retryQueue = <<>>
    /\ scan = [s \in Scans |-> IdleScan]
    /\ drain = [d \in Drains |-> IdleDrain]
    /\ balance = IdleBalance
    /\ analyzer = IdleAnalyzer
    /\ lostUpdate = FALSE
    /\ raised = {}
    /\ drained = [d \in Drains |-> {}]

\* the ledger lists the payments 1..n
Ledger(n) ==
    /\ ledger = [i \in 1..n |-> i]
    /\ tries = [p \in 1..n |-> 0]

ScanSingle(s) ==
    \/ ScanStart(s) \/ ScanList(s) \/ ScanCan(s) \/ ScanWhy(s) \/ ScanWarn(s)
    \/ ScanRead(s) \/ ScanInfo(s) \/ ScanSubmit(s) \/ ScanWait(s) \/ ScanOkHook(s)
    \/ ScanErrRead(s) \/ ScanErrHook(s)

DrainTick(d) ==
    \/ DrainStart(d) \/ DrainCan(d) \/ DrainSubmit(d) \/ DrainWait(d)
    \/ DrainOkRead(d) \/ DrainOkHook(d) \/ DrainErrRead(d) \/ DrainErrHook(d)

\* Spec: overlapping firings of the scan schedule
Init ==
    /\ InitAgent
    /\ webhookUrl \in BOOLEAN
    /\ Ledger(NumPayments)
    /\ tracked = {}
    /\ seen = Unseen
    /\ batchProcessingThreshold = DefaultBatchProcessingThreshold
    /\ lowBalanceThreshold = LowBalanceThreshold

Next == \E s \in Scans : ScanSingle(s) \/ ScanSkip(s)

Spec == Init /\ [][Next]_vars

\* SpecDrain: a scan tick and drain ticks, interleaved at their awaits
InitDrain ==
    /\ InitAgent
    /\ webhookUrl \in BOOLEAN
    /\ Ledger(NumPayments)
    /\ tracked = {}
    /\ seen = Unseen
    /\ batchProcessingThreshold = DefaultBatchProcessingThreshold
    /\ lowBalanceThreshold = LowBalanceThreshold

NextDrain ==
    \/ ScanSingle(1)
    \/ \E d \in Drains : DrainTick(d)

SpecDrain == InitDrain /\ [][NextDrain]_vars

\* SpecRetry: one payment, its submissions counted
InitRetry ==
    /\ InitAgent
    /\ webhookUrl \in BOOLEAN
    /\ Ledger(1)
    /\ tracked = {1}
    /\ seen = Unseen
    /\ batchProcessingThreshold = DefaultBatchProcessingThreshold
    /\ lowBalanceThreshold = LowBalanceThreshold

SpecRetry == InitRetry /\ [][NextDrain]_vars

\* SpecBatch: enough payments for a batch, one scan tick at a time
InitBatch ==
    /\ InitAgent
    /\ webhookUrl = TRUE
    /\ Ledger(BatchPayments)
    /\ tracked = {}
    /\ seen = Unseen
    /\ batchProcessingThreshold = DefaultBatchProcessingThreshold
    /\ lowBalanceThreshold = LowBalanceThreshold

NextBatch ==
    \/ ScanSingle(1)
    \/ ScanBatch(1) \/ ScanBatchWait(1) \/ ScanBatchHook(1)

SpecBatch == InitBatch /\ [][NextBatch]_vars

\* SpecTicks: the four schedules, one payment
InitTicks ==
    /\ InitAgent
    /\ webhookUrl \in BOOLEAN
    /\ Ledger(1)
    /\ tracked = {}
    /\ seen = Unseen
    /\ batchProcessingThreshold = DefaultBatchProcessingThreshold
    /\ lowBalanceThreshold = LowBalanceThreshold

BalanceTick ==
    \/ BalanceStart \/ BalanceWallet \/ BalanceLowHook \/ BalanceContract
    \/ BalanceList \/ BalancePay \/ BalanceDueHook

AnalyzerTick == AnalyzerStart \/ AnalyzerList \/ AnalyzerPay

NextTicks ==
    \/ ScanSingle(1)
    \/ \E d \in Drains : DrainTick(d)
    \/ BalanceTick
    \/ AnalyzerTick

SpecTicks == InitTicks /\ [][NextTicks]_vars

\* SpecConfig: one scan tick under each configured batch threshold
InitConfig ==
    /\ InitAgent
    /\ webhookUrl = TRUE
    /\ Ledger(BatchThreshold)
    /\ tracked = {}
    /\ seen = Unseen
    /\ batchProcessingThreshold \in ConfiguredThresholds
    /\ lowBalanceThreshold = LowBalanceThreshold

NextConfig == ScanSingle(1)

SpecConfig == InitConfig /\ [][NextConfig]_vars

\* SpecSeen: one scan tick, its awaited calls observed
InitSeen ==
    /\ InitAgent
    /\ webhookUrl \in BOOLEAN
    /\ Ledger(NumPayments)
    /\ tracked = {}
    /\ seen = [Unseen EXCEPT !.on = TRUE]
    /\ batchProcessingThreshold = DefaultBatchProcessingThreshold
    /\ lowBalanceThreshold = LowBalanceThreshold

NextSeen == ScanSingle(1)

SpecSeen == InitSeen /\ [][NextSeen]_vars

\* what the retry map can hold between ticks: entries the scanner stored for
\* distinct identifiers, counts 1..MAX_RETRIES, in any order
InitialQueues ==
    {q \in UNION {[1..k -> [id : 1..NumPayments, cnt : 1..MAX_RETRIES]] :
                     k \in 0..NumPayments} :
        \A i \in DOMAIN q, j \in DOMAIN q : i # j => q[i].id # q[j].id}

\* SpecQueue: drain ticks over a retry map left by earlier scan ticks, their
\* awaited calls observed
InitQueue ==
    /\ isProcessing = FALSE
    /\ retryQueue \in InitialQueues
    /\ scan = [s \in Scans |-> IdleScan]
    /\ drain = [d \in Drains |-> IdleDrain]
    /\ balance = IdleBalance
    /\ analyzer = IdleAnalyzer
    /\ lostUpdate = FALSE
    /\ raised = {}
    /\ drained = [d \in Drains |-> {}]
    /\ webhookUrl \in BOOLEAN
    /\ Ledger(NumPayments)
    /\ tracked = {}
    /\ seen = [Unseen EXCEPT !.on = TRUE]
    /\ batchProcessingThreshold = DefaultBatchProcessingThreshold
    /\ lowBalanceThreshold = LowBalanceThreshold

NextQueue == \E d \in Drains : DrainTick(d)

SpecQueue == InitQueue /\ [][NextQueue]_vars

\* SpecBalance: balance-check ticks, their awaited calls observed
InitBalance ==
    /\ InitAgent
    /\ webhookUrl \in BOOLEAN
    /\ Ledger(NumPayments)
    /\ tracked = {}
    /\ seen = [Unseen EXCEPT !.on = TRUE]
    /\ batchProcessingThreshold = DefaultBatchProcessingThreshold
    /\ lowBalanceThreshold \in ConfiguredLowBalanceThresholds

NextBalanceTick == BalanceTick

SpecBalance == InitBalance /\ [][NextBalanceTick]_vars

\* SpecGateway: a scan tick and drain ticks over one payment, their awaited
\* calls observed
InitGateway ==
    /\ InitAgent
    /\ webhookUrl \in BOOLEAN
    /\ Ledger(1)
    /\ tracked = {}
    /\ seen = [Unseen EXCEPT !.on = TRUE]
    /\ batchProcessingThreshold = DefaultBatchProcessingThreshold
    /\ lowBalanceThreshold = LowBalanceThreshold

SpecGateway == InitGateway /\ [][NextDrain]_vars

\* SpecGuard: overlapping firings of the four schedules, one payment
InitGuard ==
    /\ InitAgent
    /\ webhookUrl = TRUE
    /\ Ledger(1)
    /\ tracked = {}
    /\ seen = Unseen
    /\ batchProcessingThreshold = DefaultBatchProcessingThreshold
    /\ lowBalanceThreshold = LowBalanceThreshold

NextGuard ==
    \/ \E s \in Scans : ScanSingle(s) \/ ScanSkip(s)
    \/ \E d \in Drains : DrainTick(d)
    \/ BalanceTick
    \/ AnalyzerTick

SpecGuard == InitGuard /\ [][NextGuard]_vars

\* every gateway and notifier call that invocation s awaits returns
ScanReturns(s) ==
    \/ ScanList(s) \/ ScanCan(s) \/ ScanWhy(s) \/ ScanWarn(s)
    \/ ScanRead(s) \/ ScanInfo(s) \/ ScanSubmit(s) \/ ScanWait(s) \/ ScanOkHook(s)
    \/ ScanErrRead(s) \/ ScanErrHook(s)

\* SpecLive: Spec, where the calls a scan tick awaits eventually return
SpecLive == Init /\ [][Next]_vars /\ \A s \in Scans : WF_vars(ScanReturns(s))

(* -------------------------------- claims ------------------------------- *)

\* invocation s of checkAndProcessPayments is past the guard and not yet done
Running(s) == scan[s].pc \notin {"idle", "skipped"}

\* C1: a scan tick that fires while the guard is held by a tick in progress
\* does not start: it is marked skipped and nothing else changes -- no
\* invocation moves (no gateway call, no submission, no notification), the
\* retry queue and the guard stay as they are -- and it is not left pending.
C1_SecondScanTickIsNoOp ==
    [][\A s \in Scans :
        (isProcessing /\ ~Running(s) /\ \E o \in Scans \ {s} : Running(o))
        => /\ scan'[s].pc \in {"idle", "skipped"}
           /\ scan'[s] # scan[s]
              => /\ scan'[s] = [IdleScan EXCEPT !.pc = "skipped"]
                 /\ \A o \in Scans \ {s} : scan'[o] = scan[o]
                 /\ UNCHANGED <<isProcessing, retryQueue, drain, balance, analyzer,
                                tries, lostUpdate, raised>>]_vars

\* a tick was skipped while another one awaits the outcome of a submission
C1_Witness ==
    \E s \in Scans, o \in Scans :
        /\ scan[s].pc = "skipped"
        /\ scan[o].pc \in {"submit", "wait"}
        /\ isProcessing

\* C2: an identifier is never retried a 4th time: after its first failed
\* submission at most MAX_RETRIES further submissions of it are issued
\* without a success in between.
C2_RetryBound == \A p \in tracked : tries[p] <= 1 + MAX_RETRIES

\* C3: every entry of the retry queue has a count below MAX_RETRIES.
C3_CountBelowMax == \A i \in 1..Len(retryQueue) : retryQueue[i].cnt < MAX_RETRIES

\* C4: no update of the retry map is lost: no path stores a count computed
\* from a count that the other path has changed since it was read.
C4_NoLostUpdate == ~lostUpdate

\* C5: no two ticks await the outcome of a submission of the same identifier.
C5_NoDuplicateSubmission ==
    /\ \A s \in Scans, d \in Drains :
            InFlight(scan[s]) \cap DrainInFlight(drain[d]) = {}
    /\ \A s \in Scans, o \in Scans :
            s # o => InFlight(scan[s]) \cap InFlight(scan[o]) = {}
    /\ \A d \in Drains, e \in Drains :
            d # e => DrainInFlight(drain[d]) \cap DrainInFlight(drain[e]) = {}

\* C6: when the handling of a successful submission of p ends -- a single
\* submission, a batch or a drain's -- p is not in the retry queue, and an
\* identifier that is not in the queue enters it with count 1: what was
\* counted before the success is forgotten.
C6_SuccessClearsRetryState ==
    [][/\ \A s \in Scans :
            /\ (scan[s].pc = "okhook" /\ scan'[s].pc # "okhook")
               => ~Has(retryQueue', CurId(scan[s]))
            /\ (scan[s].pc = "bhook" /\ scan'[s].pc # "bhook")
               => \A p \in Range(scan[s].proc) : ~Has(retryQueue', p)
       /\ \A d \in Drains :
            (drain[d].pc = "okhook" /\ drain'[d].pc # "okhook")
            => ~Has(retryQueue', drain[d].id)
       /\ \A i \in 1..Len(retryQueue') :
            ~Has(retryQueue, retryQueue'[i].id) => retryQueue'[i].cnt = 1]_vars

\* C7: after a failed batch the tick ends only when the last identifier of
\* the batch has been through the single-submission path, and no tick raises.
C7_FallbackCoversBatch ==
    [][\A s \in Scans :
        (Running(s) /\ ~Running(s)' /\ UseBatch(Len(scan[s].proc))
            /\ scan[s].pc \notin {"bwait", "bhook"})
        => (scan[s].pidx = Len(scan[s].proc) /\ raised' = {})]_vars

\* C8: no tick's callback rejects.
C8_NoTickRaises == raised = {}

\* C9: a scan tick ends only when the last processable identifier has been
\* through the single-submission path.
C9_EveryProcessableAttempted ==
    [][\A s \in Scans :
        (Running(s) /\ ~Running(s)' /\ ~UseBatch(Len(scan[s].proc)))
        => scan[s].pidx = Len(scan[s].proc)]_vars

\* C10: when the handling of a failure at the retry ceiling ends, its error
\* notification sent, the identifier is not in the retry queue.
C10_DroppedAtCeiling ==
    [][\A s \in Scans :
        (scan[s].pc = "errhook" /\ scan'[s].pc # "errhook")
        => ~Has(retryQueue', CurId(scan[s]))]_vars

\* C11: a scan tick that took the guard leaves it free when it ends, however
\* it ends: after the dispatch, on an empty list, on a failed listing, or on
\* an error thrown during classification or dispatch.
C11_GuardReleasedOnExit ==
    [][\A s \in Scans : (Running(s) /\ ~Running(s)') => ~isProcessing']_vars

\* a tick has run, recorded a failure and ended, and the guard is free
C11_Witness ==
    /\ ~isProcessing
    /\ \A s \in Scans : scan[s].pc = "idle"
    /\ retryQueue # <<>>

\* invocation r is in the loop of lines 85-119
Classifying(r) == r.pc \in {"can", "why", "warn"}

\* invocation r is in processSinglePayment
InSingle(r) == r.pc \in {"read", "info", "submit", "wait", "okhook", "errread", "errhook"}

\* invocation r is in the try block of processBatchPayments
InBatch(r) == r.pc \in {"batch", "bwait", "bhook"}

C13_ConfiguredThreshold ==
    [][\A s \in Scans :
        LET r == scan[s]
            n == scan'[s]
        IN  (Classifying(r) /\ ~Classifying(n) /\ n.pc # "idle")
            => (n.pc = "batch" <=> Len(n.proc) > batchProcessingThreshold)]_vars

\* C14: a rejected eligibility check, or a rejected read after a check that
\* returned false, excludes that payment only: the loop goes on with the
\* next active identifier, the payments found eligible so far stay listed,
\* a payment whose check returns true is listed, and the tick leaves the
\* loop only after the last active identifier, dispatching the whole list.
C14_CheckFailureExcludesOnlyThat ==
    [][\A s \in Scans :
        LET r == scan[s]
            n == scan'[s]
        IN  (Classifying(r) /\ n # r)
            => /\ (r.pc \in {"can", "why"} /\ seen'.o = "err")
                  => IF r.idx < Len(r.ids)
                     THEN n = [r EXCEPT !.idx = @ + 1, !.pc = "can"]
                     ELSE IF r.proc = <<>> THEN n.pc = "idle"
                     ELSE n.pc \in {"read", "batch"} /\ n.proc = r.proc
               /\ (r.pc = "can" /\ seen'.o = "true")
                  => /\ n.proc = Append(r.proc, r.ids[r.idx])
                     /\ n.pc \in {"can", "read", "batch"}
               /\ ~Classifying(n) => r.idx = Len(r.ids)
               /\ Classifying(n)
                  => /\ n.ids = r.ids
                     /\ n.idx \in {r.idx, r.idx + 1}
                     /\ n.proc \in {r.proc, Append(r.proc, r.ids[r.idx])}
               /\ n.pc = "read" => n.pidx = 1]_vars

\* the check of the last active payment was rejected, and the payment found
\* eligible before it is dispatched
C14_Witness ==
    \E s \in Scans :
        /\ seen.o = "err"
        /\ scan[s].pc = "read"
        /\ Len(scan[s].ids) > 1
        /\ scan[s].proc = <<scan[s].ids[1]>>

\* C15: a batch whose submission and confirmation succeeded gets one
\* success notification, sent for the whole list before any individual
\* submission was issued in the tick; when it returns the tick ends, and
\* none of the batch's identifiers is in the retry queue.
C15_BatchSuccess ==
    [][\A s \in Scans :
        LET r == scan[s]
            n == scan'[s]
        IN  /\ (n.pc = "bhook" /\ r.pc # "bhook")
               => /\ r.pc = "bwait"
                  /\ n.proc = r.proc
                  /\ n.pidx = 0
                  /\ retryQueue' = retryQueue
            /\ (r.pc = "bhook" /\ n # r)
               => /\ n.pc = "idle"
                  /\ \A p \in Range(r.proc) : ~Has(retryQueue', p)
                  /\ \A i \in 1..Len(retryQueue) :
                        retryQueue[i].id \notin Range(r.proc)
                        => \E j \in 1..Len(retryQueue') : retryQueue'[j] = retryQueue[i]]_vars

\* the success notification of a batch is sent while one of the batch's
\* identifiers is in the retry queue
C15_Witness ==
    \E s \in Scans :
        /\ scan[s].pc = "bhook"
        /\ \E p \in Range(scan[s].proc) : Has(retryQueue, p)

\* the step is taken by invocation d of processRetryQueue, from the d before
\* the step to the d after it: another invocation's step can only move its
\* iterator back
DrainActs(r, n) == n.pc # r.pc \/ n.pos > r.pos

\* C16: a drain tick whose eligibility re-check of an entry returns false
\* leaves the retry queue as it is, issues no submission, and goes on with
\* the entry after it (or ends after the last one).
C16_NotEligibleLeftUnchanged ==
    [][\A d \in Drains :
        LET r == drain[d]
            n == drain'[d]
        IN  (r.pc = "can" /\ DrainActs(r, n) /\ seen'.o = "false")
            => /\ retryQueue' = retryQueue
               /\ tries' = tries
               /\ IF r.pos < Len(retryQueue)
                  THEN n = [pc |-> "can", pos |-> r.pos + 1,
                            id |-> retryQueue[r.pos + 1].id,
                            cnt |-> retryQueue[r.pos + 1].cnt]
                  ELSE n = IdleDrain]_vars

\* the re-check of the first entry returned false: the entry is where it
\* was, and the drain is at the second entry
C16_Witness ==
    \E d \in Drains :
        /\ seen.o = "false"
        /\ drain[d].pc = "can"
        /\ drain[d].pos = 2
        /\ Len(retryQueue) = 2

\* C18: with a notification endpoint configured, the balance check sends the
\* wallet low-balance warning exactly when the wallet balance it read is
\* strictly below the configured threshold, as fixed-point amounts, and
\* sends it once: against the threshold 0.1, for 0.05, not for 0.2 and not
\* for 0.1.
C18_LowBalanceWarning ==
    [][/\ (balance.pc = "wallet" /\ balance' # balance /\ seen'.o = "ok" /\ webhookUrl)
          => /\ balance'.pc = "lowhook" <=> seen'.num < ParseEther(lowBalanceThreshold)
             /\ balance'.pc \in {"lowhook", "contract"}
             /\ lowBalanceThreshold = LowBalanceThreshold
                => /\ seen'.num = ParseEther([whole |-> 0, frac |-> <<0, 5>>])
                      => balance'.pc = "lowhook"
                   /\ seen'.num \in {ParseEther([whole |-> 0, frac |-> <<1>>]),
                                     ParseEther([whole |-> 0, frac |-> <<2>>])}
                      => balance'.pc = "contract"
       /\ (balance'.pc = "lowhook" /\ balance.pc # "lowhook") => balance.pc = "wallet"
       /\ (balance.pc = "lowhook" /\ balance' # balance) => balance'.pc = "contract"]_vars

\* the wallet holds 0.05 ether and the warning is being sent
C18_Witness ==
    /\ balance.pc = "lowhook"
    /\ lowBalanceThreshold = LowBalanceThreshold
    /\ seen.o = "ok"
    /\ seen.num = ParseEther([whole |-> 0, frac |-> <<0, 5>>])

\* C19: an active payment whose eligibility check returned false is due iff
\* now >= lastPayment + interval, in whole seconds: before that it is not
\* yet due and no notification is sent for it; from that second on it is
\* blocked and, with an endpoint configured, one warning is sent for it
\* before the loop goes on.
C19_DueAtInterval ==
    [][\A s \in Scans :
        LET r == scan[s]
            n == scan'[s]
            pay == seen'.pay
            now == seen'.num \div 1000
        IN  /\ (r.pc = "why" /\ n # r /\ seen'.o = "ok")
               => /\ (pay.isActive /\ now < pay.lastPayment + pay.interval)
                     => n.pc # "warn"
                  /\ (pay.isActive /\ now >= pay.lastPayment + pay.interval /\ webhookUrl)
                     => n = [r EXCEPT !.pc = "warn"]
                  /\ ~pay.isActive => n.pc # "warn"
            /\ (n.pc = "warn" /\ r.pc # "warn") => r.pc = "why"
            /\ (r.pc = "warn" /\ n # r) => n.pc # "warn"]_vars

\* the warning is being sent for a payment read in the very second in which
\* it falls due
C19_Witness ==
    \E s \in Scans :
        /\ scan[s].pc = "warn"
        /\ seen.o = "ok"
        /\ seen.pay.isActive
        /\ seen.num \div 1000 = seen.pay.lastPayment + seen.pay.interval

\* C20: once the submission of an entry and its confirmation have succeeded
\* in a drain tick, the entry is gone from the retry queue when the drain
\* moves on, whatever the payment read and the delivery of the success
\* notification do.
C20_DrainRemovesOnSuccess ==
    [][\A d \in Drains :
        LET r == drain[d]
            n == drain'[d]
        IN  /\ (r.pc = "wait" /\ DrainActs(r, n) /\ seen'.o = "ok")
               => (n.pc = "okread" \/ ~Has(retryQueue', r.id))
            /\ (r.pc \in {"okread", "okhook"} /\ n.pc \notin {"okread", "okhook"})
               => ~Has(retryQueue', r.id)
            /\ (r.pc \in {"okread", "okhook"} /\ Has(retryQueue, r.id)
                    /\ Has(retryQueue', r.id))
               => Get(retryQueue', r.id) = Get(retryQueue, r.id)]_vars

\* C21: the retry queue gains an entry, or an entry's count grows, only in
\* the step in which a submission or a confirmation wait fails: a rejected
\* payment read or eligibility re-check leaves every entry, present or
\* absent, as it was.
C21_OnlyFailedSubmissionEnrolls ==
    [][(\E p \in Range(ledger) : Get(retryQueue', p) > Get(retryQueue, p))
        => /\ seen'.o = "err"
           /\ \/ \E s \in Scans :
                    scan[s].pc \in {"submit", "wait"} /\ scan'[s] # scan[s]
              \/ \E d \in Drains :
                    drain[d].pc \in {"submit", "wait"} /\ DrainActs(drain[d], drain'[d])]_vars

\* C22: every count stored in the retry queue is between 1 and MAX_RETRIES.
C22_CountInRange ==
    \A i \in 1..Len(retryQueue) : retryQueue[i].cnt \in 1..MAX_RETRIES

\* scan and drain have both stored counts: one entry is at MAX_RETRIES, and
\* a drain tick is at an entry whose count it has raised
C22_Witness ==
    /\ \E i \in 1..Len(retryQueue) : retryQueue[i].cnt = MAX_RETRIES
    /\ \E d \in Drains :
          /\ drain[d].pc = "can"
          /\ drain[d].pos > 1
          /\ retryQueue[1].cnt = MAX_RETRIES - 1

\* C23: the guard is set exactly while one scan tick is between taking it
\* and releasing it, and at most one is; a scan tick that fires meanwhile is
\* skipped and leaves the guard set; the steps of drain, balance and
\* analyzer ticks leave the guard as it is, set or not.
C23_GuardMeansOneScanRunning ==
    /\ [](/\ isProcessing <=> \E s \in Scans : Running(s)
          /\ Cardinality({s \in Scans : Running(s)}) <= 1)
    /\ [][/\ \A s \in Scans :
                (isProcessing /\ ~Running(s) /\ scan'[s] # scan[s])
                => (scan'[s].pc = "skipped" /\ isProcessing')
          /\ (scan' = scan /\ (drain' # drain \/ balance' # balance \/ analyzer' # analyzer))
             => isProcessing' = isProcessing]_vars

\* a scan tick holds the guard and one was skipped, while a drain tick, a
\* balance check and a pattern analysis are under way
C23_Witness ==
    /\ isProcessing
    /\ \E s \in Scans : scan[s].pc = "skipped"
    /\ \E d \in Drains : drain[d].pc # "idle"
    /\ balance.pc # "idle"
    /\ analyzer.pc # "idle"

\* C24: a drain tick issues no second submission of an identifier it has
\* already submitted in that tick.
C24_DrainSubmitsOnce ==
    [][\A d \in Drains :
        (drain[d].pc = "can" /\ drain'[d].pc = "submit")
        => drain[d].id \notin drained[d]]_vars

\* C25: if every call a scan tick awaits eventually returns, a guard that is
\* set is eventually cleared, and a tick that is running eventually ends.
C25_GuardEventuallyCleared ==
    /\ isProcessing ~> ~isProcessing
    /\ \A s \in Scans : Running(s) ~> ~Running(s)

\* one tick was skipped while another ran to its end, a failure recorded,
\* and the guard is free again
C25_Witness ==
    /\ ~isProcessing
    /\ \E s \in Scans : scan[s].pc = "skipped"
    /\ \E s \in Scans : scan[s].pc = "idle"
    /\ retryQueue # <<>>

=============================================================================
